---- MODULE Spec2Model ----
(***************************************************************************)
(* Object layer of the AVM2 runtime: ByteArrayObject (a byte buffer        *)
(* overlaid on the generic property table) and DomainObject (an object     *)
(* wrapping a Domain), as state machines over a heap of objects.           *)
(***************************************************************************)
EXTENDS Integers, Sequences, FiniteSets, TLC

VARIABLES
    objects,    \* the heap: a sequence of object records, an object's handle is its position
    last        \* the protocol operation performed last: its inputs, result and the calls it made

vars == <<objects, last>>

-----------------------------------------------------------------------------
(* Bounds of the model *)

\* the largest buffer index a property name of the model denotes
MaxIndex == 1
\* the most entries one generic property table holds
MaxProps == 1
\* the most objects allocated after the initial heap
MaxObjects == 1

-----------------------------------------------------------------------------
(* Names: QName = (namespace, local name); a local name is a sequence of characters *)

Public == "public"
Private == "private"

QName(ns, local) == [ns |-> ns, local |-> local]

is_public(ns) == ns = Public

Digits == <<"0", "1", "2", "3", "4", "5", "6", "7", "8", "9">>

DigitValue ==
    [c \in {"0", "1", "2", "3", "4", "5", "6", "7", "8", "9"} |->
        CHOOSE d \in 0..9 : Digits[d + 1] = c]

IsDigit(c) == c \in DOMAIN DigitValue

to_digit(c) == DigitValue[c]

\* the decimal digits of usize::MAX (2^64 - 1) on a 64-bit build
USIZE_MAX_DIGITS == <<1, 8, 4, 4, 6, 7, 4, 4, 0, 7, 3, 7, 0, 9, 5, 5, 1, 6, 1, 5>>

RECURSIVE strip_zeros(_)
strip_zeros(d) == IF Len(d) > 1 /\ d[1] = 0 THEN strip_zeros(Tail(d)) ELSE d

RECURSIVE digits_gt(_, _)
\* a > b for two digit sequences of the same length
digits_gt(a, b) ==
    IF a = <<>> THEN FALSE
    ELSE IF a[1] # b[1] THEN a[1] > b[1]
    ELSE digits_gt(Tail(a), Tail(b))

\* the checked multiply-and-add of the parse overflows: the number exceeds usize::MAX
exceeds_usize(d) ==
    /\ Len(d) >= Len(USIZE_MAX_DIGITS)
    /\ LET z == strip_zeros(d)
       IN  \/ Len(z) > Len(USIZE_MAX_DIGITS)
           \/ Len(z) = Len(USIZE_MAX_DIGITS) /\ digits_gt(z, USIZE_MAX_DIGITS)

RECURSIVE digits_value(_)
digits_value(d) ==
    IF d = <<>> THEN 0
    ELSE 10 * digits_value(SubSeq(d, 1, Len(d) - 1)) + d[Len(d)]

ParseErr == [ok |-> FALSE, index |-> 0]

\* str::parse::<usize>(): an optional '+', then one or more ASCII digits, no overflow
parse_usize(s) ==
    IF s = <<>> THEN ParseErr
    ELSE LET body == IF s[1] = "+" THEN Tail(s) ELSE s
         IN  IF body = <<>> \/ \E i \in 1..Len(body) : ~IsDigit(body[i])
             THEN ParseErr
             ELSE LET d == [i \in 1..Len(body) |-> to_digit(body[i])]
                  IN  IF exceeds_usize(d) THEN ParseErr
                      ELSE [ok |-> TRUE, index |-> digits_value(strip_zeros(d))]

RECURSIVE decimal(_)
\* the decimal numeral of a natural number
decimal(i) ==
    IF i < 10 THEN <<Digits[i + 1]>>
    ELSE decimal(i \div 10) \o <<Digits[(i % 10) + 1]>>

\* the local names of the model
IndexNames == {decimal(i) : i \in 0..MaxIndex}
PlusName == <<"+", "1">>
WordName == <<"x">>
BigName == [i \in 1..21 |-> "9"]
LocalNames == IndexNames \cup {PlusName, WordName, BigName}

QNames == {QName(Public, l) : l \in LocalNames} \cup {QName(Private, <<"0">>)}

NoName == QName("none", <<>>)

-----------------------------------------------------------------------------
(* Values *)

Undefined == [tag |-> "Undefined"]
Number(n) == [tag |-> "Number", n |-> n]
Unsigned(n) == [tag |-> "Unsigned", n |-> n]
Bool(b) == [tag |-> "Boolean", b |-> b]
\* an object of script code whose valueOf reads element 0 of the ByteArrayObject `target`
ObjectValue(target) == [tag |-> "Object", target |-> target]
\* an object of script code whose valueOf throws
Thrower == [tag |-> "Thrower"]
\* a reference to the object of the heap with handle `ref`
ObjectRef(ref) == [tag |-> "ObjectRef", ref |-> ref]
\* a virtual property: a getter / setter pair of script code, which throws or not
Virtual(fails) == [tag |-> "Virtual", fails |-> fails]
SomeNs(ns) == [tag |-> "Some", ns |-> ns]
NoneNs == [tag |-> "None"]
NoValue == [tag |-> "NoValue"]

NumberValues == {Number(-1), Number(256)}
\* the values class traits declare constants with
ConstValues == {Number(256)}

\* an unsigned 32-bit integer, kept as its two 16-bit halves
U32(hi, lo) == [hi |-> hi, lo |-> lo]

\* ToUint32 of an integral number: the number modulo 2^32
number_to_u32(n) ==
    IF n >= 0
    THEN U32((n \div 65536) % 65536, n % 65536)
    ELSE LET m == (-n) - 1
         IN  U32(65535 - ((m \div 65536) % 65536), 65535 - (m % 65536))

\* mutant: the conversion saturates instead of keeping the low 8 bits
as_u8_saturating(u) == IF u.hi > 0 \/ u.lo > 255 THEN 255 ELSE u.lo

\* u32 as u8
as_u8(u) == u.lo % 256

\* u8 as u32
as_u32(b) == b

-----------------------------------------------------------------------------
(* Permit and call events of one operation *)

Ev(ev, obj) == [ev |-> ev, obj |-> obj]

\* a permit (read or write) is requested on an object whose write permit is still held
overlapping_permit(events) ==
    \E i, j \in 1..Len(events) :
        /\ i < j
        /\ events[i].ev = "write"
        /\ events[j].ev \in {"read", "write"}
        /\ events[j].obj = events[i].obj
        /\ \A k \in (i + 1)..(j - 1) :
               ~(events[k].ev = "drop_write" /\ events[k].obj = events[i].obj)

-----------------------------------------------------------------------------
(* ByteArrayStorage: the byte buffer; position i of the buffer is storage[i + 1] *)

ByteArrayStorage_new == <<>>

ByteArrayStorage_get(storage, index) ==
    IF index < Len(storage)
    THEN [some |-> TRUE, byte |-> storage[index + 1]]
    ELSE [some |-> FALSE, byte |-> 0]

ByteArrayStorage_set(storage, index, byte) ==
    LET grown == IF index >= Len(storage)
                 THEN storage \o [k \in 1..(index + 1 - Len(storage)) |-> 0]
                 ELSE storage
    IN  [grown EXCEPT ![index + 1] = byte]

\* the policies the removal of an element may follow (left open by the design)
DeletePolicies == {"zero", "shift", "truncate"}

ByteArrayStorage_delete(storage, index, policy) ==
    IF index >= Len(storage) THEN storage
    ELSE CASE policy = "zero" -> [storage EXCEPT ![index + 1] = 0]
           [] policy = "shift" -> SubSeq(storage, 1, index) \o SubSeq(storage, index + 2, Len(storage))
           [] policy = "truncate" -> SubSeq(storage, 1, index)

-----------------------------------------------------------------------------
(* ScriptObjectData: the generic property table, a set of entries with unique names *)

Entry(name, value, final, overwritable) ==
    [name |-> name, value |-> value, final |-> final, overwritable |-> overwritable]

has_entry(table, name) == \E e \in table : e.name = name

entry_of(table, name) == CHOOSE e \in table : e.name = name

base_get_property_local(table, name) ==
    IF has_entry(table, name) THEN entry_of(table, name).value ELSE Undefined

\* the table holds a virtual property under the name: its accessors are not run
\* by the table, they are handed back as a deferred call
is_virtual(table, name) ==
    has_entry(table, name) /\ entry_of(table, name).value.tag = "Virtual"

\* set: enforces final / overwritable, and leaves a final, non-overwritable property alone
base_set_property_local(table, name, value) ==
    IF has_entry(table, name)
    THEN LET e == entry_of(table, name)
         IN  IF (e.final /\ ~e.overwritable) \/ is_virtual(table, name) THEN table
             ELSE (table \ {e}) \cup {[e EXCEPT !.value = value]}
    ELSE table \cup {Entry(name, value, FALSE, TRUE)}

\* init: bypasses the final / overwritable checks
base_init_property_local(table, name, value) ==
    IF has_entry(table, name)
    THEN LET e == entry_of(table, name)
         IN  IF is_virtual(table, name) THEN table
             ELSE (table \ {e}) \cup {[e EXCEPT !.value = value]}
    ELSE table \cup {Entry(name, value, FALSE, TRUE)}

\* the ReturnValue of the table's get: the value, or the deferred call of a getter
base_get_return(table, name) == base_get_property_local(table, name)

\* the ReturnValue of the table's set and init: nothing, or the deferred call of a setter
base_set_return(table, name) ==
    IF is_virtual(table, name) THEN entry_of(table, name).value ELSE Undefined

\* install_getter / install_setter of a class trait: a virtual property
base_install_virtual(table, name, fails) ==
    table \cup {Entry(name, Virtual(fails), FALSE, TRUE)}

base_delete_property(table, name) ==
    [table |-> {e \in table : e.name # name}, removed |-> has_entry(table, name)]

base_has_own_property(table, name) == has_entry(table, name)

base_is_property_final(table, name) ==
    has_entry(table, name) /\ entry_of(table, name).final

base_is_property_overwritable(table, name) ==
    has_entry(table, name) /\ entry_of(table, name).overwritable

base_resolve_any(table, local) ==
    IF has_entry(table, QName(Public, local)) THEN SomeNs(Public)
    ELSE IF \E e \in table : e.name.local = local
         THEN SomeNs((CHOOSE e \in table : e.name.local = local).name.ns)
         ELSE NoneNs

\* a statically declared constant: final and not overwritable
base_install_const(table, name, value) == table \cup {Entry(name, value, TRUE, FALSE)}

ScriptObjectData_base_new(proto, class) == [proto |-> proto, class |-> class, table |-> {}]

-----------------------------------------------------------------------------
(* The outcome of one protocol operation: its status (Ok, Err, or Panic when the
   memory manager refuses a permit), the value returned, the permit and call
   events in order, and the object's data afterwards *)

Outcome(status, ret, events, data) ==
    [status |-> status, ret |-> ret, events |-> events, data |-> data]

-----------------------------------------------------------------------------
(* ByteArrayObject *)

\* mutant: the namespace of the name is not looked at
overlay_index_any_namespace(name) == parse_usize(name.local)

\* the request is served by the buffer: a public name whose local name parses as usize
overlay_index(name) ==
    IF is_public(name.ns) THEN parse_usize(name.local) ELSE ParseErr

\* the value a buffer read surfaces as
byte_value(val) ==
    IF val.some THEN Unsigned(as_u32(val.byte)) ELSE Undefined

\* ReturnValue::resolve: an immediate value is the result; a deferred call runs
\* the accessor's script code, which reads the object it belongs to and may throw
resolve(this, rv) ==
    IF rv.tag = "Virtual"
    THEN [status |-> IF rv.fails THEN "Err" ELSE "Ok", value |-> Undefined,
          events |-> <<Ev("resolve", this), Ev("read", this), Ev("drop_read", this)>>]
    ELSE [status |-> "Ok", value |-> rv, events |-> <<Ev("resolve", this)>>]

\* mutant: the deferred result is resolved while the read permit is still held
get_property_local_resolving_early(objs, this, name) ==
    LET data == objs[this]
        idx == overlay_index(name)
        res == resolve(this, base_get_return(data.table, name))
    IN  IF idx.ok
        THEN Outcome("Ok", byte_value(ByteArrayStorage_get(data.storage, idx.index)),
                     <<Ev("read", this), Ev("storage.get", this), Ev("drop_read", this)>>,
                     data)
        ELSE Outcome(res.status, res.value,
                     <<Ev("read", this), Ev("base.get_property_local", this)>>
                         \o res.events \o <<Ev("drop_read", this)>>,
                     data)

get_property_local(objs, this, name) ==
    LET data == objs[this]
        idx == overlay_index(name)
        res == resolve(this, base_get_return(data.table, name))
    IN  IF idx.ok
        THEN Outcome("Ok", byte_value(ByteArrayStorage_get(data.storage, idx.index)),
                     <<Ev("read", this), Ev("storage.get", this), Ev("drop_read", this)>>,
                     data)
        ELSE Outcome(res.status, res.value,
                     <<Ev("read", this), Ev("base.get_property_local", this),
                       Ev("drop_read", this)>> \o res.events,
                     data)

\* Value::coerce_to_u32 while the write permit on `held` is held (0: none is held).
\* The valueOf of a script object runs script code, here a read of element 0 of
\* its target; a thrower's valueOf fails.
coerce_to_u32(objs, value, held) ==
    CASE value.tag = "Number" ->
           [status |-> "Ok", u32 |-> number_to_u32(value.n), events |-> <<>>]
      [] value.tag = "Thrower" ->
           [status |-> "Err", u32 |-> U32(0, 0), events |-> <<Ev("valueOf", 0)>>]
      [] value.tag = "Object" ->
           IF value.target = held
           THEN [status |-> "Panic", u32 |-> U32(0, 0),
                 events |-> <<Ev("valueOf", value.target), Ev("read", value.target)>>]
           ELSE LET got == get_property_local(objs, value.target, QName(Public, <<"0">>))
                IN  [status |-> "Ok",
                     u32 |-> IF got.ret.tag = "Unsigned" THEN number_to_u32(got.ret.n)
                             ELSE U32(0, 0),
                     events |-> <<Ev("valueOf", value.target)>> \o got.events]

\* mutant: the byte is stored one position late
storage_write_next(data, index, u) ==
    [data EXCEPT !.storage = ByteArrayStorage_set(@, index + 1, as_u8(u))]

\* write.storage.set(index, u32 as u8)
storage_write(data, index, u) ==
    [data EXCEPT !.storage = ByteArrayStorage_set(@, index, as_u8(u))]

\* mutant: the buffer is grown to the index before the value is coerced
index_write_growing(objs, this, index, value) ==
    LET data == objs[this]
        c == coerce_to_u32(objs, value, this)
    IN  Outcome(c.status, Undefined, <<Ev("write", this)>> \o c.events,
                storage_write(data, index, c.u32))

\* the index path of set_property_local and init_property_local
index_write(objs, this, index, value) ==
    LET data == objs[this]
        c == coerce_to_u32(objs, value, this)
    IN  CASE c.status = "Ok" ->
               Outcome("Ok", Undefined,
                       <<Ev("write", this)>> \o c.events
                           \o <<Ev("storage.set", this), Ev("drop_write", this)>>,
                       storage_write(data, index, c.u32))
          [] c.status = "Err" ->
               Outcome("Err", Undefined,
                       <<Ev("write", this)>> \o c.events \o <<Ev("drop_write", this)>>,
                       data)
          [] c.status = "Panic" ->
               Outcome("Panic", Undefined, <<Ev("write", this)>> \o c.events, data)

init_property_local(objs, this, name, value) ==
    LET data == objs[this]
        idx == overlay_index(name)
    IN  IF idx.ok
        THEN index_write(objs, this, idx.index, value)
        ELSE LET res == resolve(this, base_set_return(data.table, name))
             IN  Outcome(res.status, Undefined,
                         <<Ev("write", this), Ev("base.init_property_local", this),
                           Ev("drop_write", this)>> \o res.events,
                         [data EXCEPT !.table = base_init_property_local(@, name, value)])

\* mutant: set delegates to the base table's init, which checks nothing
set_property_local_unchecked(objs, this, name, value) ==
    init_property_local(objs, this, name, value)

set_property_local(objs, this, name, value) ==
    LET data == objs[this]
        idx == overlay_index(name)
    IN  IF idx.ok
        THEN index_write(objs, this, idx.index, value)
        ELSE LET res == resolve(this, base_set_return(data.table, name))
             IN  Outcome(res.status, Undefined,
                         <<Ev("write", this), Ev("base.set_property_local", this),
                           Ev("drop_write", this)>> \o res.events,
                         [data EXCEPT !.table = base_set_property_local(@, name, value)])

is_property_overwritable(objs, this, name) ==
    Outcome("Ok", Bool(base_is_property_overwritable(objs[this].table, name)),
            <<Ev("write", this), Ev("base.is_property_overwritable", this),
              Ev("drop_write", this)>>,
            objs[this])

is_property_final(objs, this, name) ==
    Outcome("Ok", Bool(base_is_property_final(objs[this].table, name)),
            <<Ev("read", this), Ev("base.is_property_final", this), Ev("drop_read", this)>>,
            objs[this])

delete_property(objs, this, name, policy) ==
    LET data == objs[this]
        idx == overlay_index(name)
    IN  IF idx.ok
        THEN Outcome("Ok", Bool(TRUE),
                     <<Ev("write", this), Ev("storage.delete", this), Ev("drop_write", this)>>,
                     [data EXCEPT !.storage = ByteArrayStorage_delete(@, idx.index, policy)])
        ELSE LET del == base_delete_property(data.table, name)
             IN  Outcome("Ok", Bool(del.removed),
                         <<Ev("write", this), Ev("base.delete_property", this),
                           Ev("drop_write", this)>>,
                         [data EXCEPT !.table = del.table])

has_own_property(objs, this, name) ==
    LET data == objs[this]
        idx == overlay_index(name)
    IN  IF idx.ok
        THEN Outcome("Ok", Bool(ByteArrayStorage_get(data.storage, idx.index).some),
                     <<Ev("read", this), Ev("storage.get", this), Ev("drop_read", this)>>,
                     data)
        ELSE Outcome("Ok", Bool(base_has_own_property(data.table, name)),
                     <<Ev("read", this), Ev("base.has_own_property", this),
                       Ev("drop_read", this)>>,
                     data)

\* mutant: every numeric local name is advertised, in the buffer or not
resolve_any_unbounded(objs, this, local_name) ==
    IF parse_usize(local_name).ok
    THEN Outcome("Ok", SomeNs(Public), <<>>, objs[this])
    ELSE Outcome("Ok", base_resolve_any(objs[this].table, local_name),
                 <<Ev("read", this), Ev("base.resolve_any", this), Ev("drop_read", this)>>,
                 objs[this])

resolve_any(objs, this, local_name) ==
    LET data == objs[this]
        idx == parse_usize(local_name)
        probe == <<Ev("read", this), Ev("storage.get", this), Ev("drop_read", this)>>
        base == <<Ev("read", this), Ev("base.resolve_any", this), Ev("drop_read", this)>>
    IN  IF idx.ok /\ ByteArrayStorage_get(data.storage, idx.index).some
        THEN Outcome("Ok", SomeNs(Public), probe, data)
        ELSE Outcome("Ok", base_resolve_any(data.table, local_name),
                     (IF idx.ok THEN probe ELSE <<>>) \o base, data)

\* the object a class allocator or derive builds
ByteArrayObjectData(base, storage) ==
    [kind |-> "ByteArrayObject", proto |-> base.proto, class |-> base.class,
     table |-> base.table, storage |-> storage]

bytearray_allocator(class, proto) ==
    ByteArrayObjectData(ScriptObjectData_base_new(proto, class), ByteArrayStorage_new)

\* mutant: the child starts with a copy of the source's buffer
ByteArrayObject_derive_copying(objs, this) ==
    ByteArrayObjectData(ScriptObjectData_base_new(this, 0), objs[this].storage)

\* derive: a new ByteArrayObject with `this` as prototype, no class and a new buffer
ByteArrayObject_derive(objs, this) ==
    ByteArrayObjectData(ScriptObjectData_base_new(this, 0), ByteArrayStorage_new)

\* install_getter / install_setter: delegated to the base table, no overlay check
install_virtual(objs, this, name, fails) ==
    Outcome("Ok", Undefined,
            <<Ev("write", this), Ev("base.install_virtual", this), Ev("drop_write", this)>>,
            [objs[this] EXCEPT !.table = base_install_virtual(@, name, fails)])

\* install_const: delegated to the base table, no overlay check
install_const(objs, this, name, value) ==
    Outcome("Ok", Undefined,
            <<Ev("write", this), Ev("base.install_const", this), Ev("drop_write", this)>>,
            [objs[this] EXCEPT !.table = base_install_const(@, name, value)])

-----------------------------------------------------------------------------
(* The heap *)

\* system objects every heap starts with: the ByteArray class object and its prototype
ClassObject(scope) == [kind |-> "ClassObject", proto |-> 0, class |-> 0, table |-> {}, scope |-> scope]
ScriptObject(proto, class) == [kind |-> "ScriptObject", proto |-> proto, class |-> class, table |-> {}]

ByteArrayClass == 1
ByteArrayProto == 2
SystemHeap == <<ClassObject(0), ScriptObject(0, 0)>>

Handles(objs) == 1..Len(objs)
ByteArrays(objs) == {h \in Handles(objs) : objs[h].kind = "ByteArrayObject"}

\* the values script code can pass to an operation
ValuesIn(objs) ==
    NumberValues \cup {ObjectValue(t) : t \in ByteArrays(objs)} \cup {Thrower}

Running == last.status # "Panic"

\* what is kept of the operation performed last: which one, on which object, how
\* it ended, and whether it requested a permit on an object whose write permit
\* it still held
Op(op, this, out) ==
    [op |-> op, this |-> this, status |-> out.status,
     overlap |-> overlapping_permit(out.events), steps |-> <<>>]

\* an operation that ran no protocol operation of a ByteArrayObject
Done(op, status, steps) ==
    [op |-> op, this |-> 0, status |-> status, overlap |-> FALSE, steps |-> steps]

NoOp == Done("none", "Ok", <<>>)

\* mutant: a ByteArrayObject and the objects derived from it share one buffer
Apply_shared_storage(this, out) ==
    /\ Cardinality(out.data.table) <= MaxProps
    /\ objects' = [h \in DOMAIN objects |->
                      IF h = this THEN out.data
                      ELSE IF /\ objects[h].kind = "ByteArrayObject"
                              /\ (objects[h].proto = this \/ objects[this].proto = h)
                           THEN [objects[h] EXCEPT !.storage = out.data.storage]
                           ELSE objects[h]]

\* an operation's effect on the heap: the object's new data, within the table bound
Apply(this, out) ==
    /\ Cardinality(out.data.table) <= MaxProps
    /\ objects' = [objects EXCEPT ![this] = out.data]

\* the (name, value) pairs script code passes to a write: the table path stores
\* the value as it is, so numbers stand for every value there
WriteInputs(objs) ==
    {<<name, value>> \in QNames \X ValuesIn(objs) :
        overlay_index(name).ok \/ value \in NumberValues}

-----------------------------------------------------------------------------
(* Actions: the interpreter performs one protocol operation *)

GetPropertyLocalOf(names) ==
    \E this \in ByteArrays(objects), name \in names :
        LET out == get_property_local(objects, this, name)
        IN  Running /\ Apply(this, out) /\ last' = Op("get_property_local", this, out)

SetPropertyLocalOf(inputs) ==
    \E this \in ByteArrays(objects), input \in inputs :
        LET out == set_property_local(objects, this, input[1], input[2])
        IN  Running /\ Apply(this, out) /\ last' = Op("set_property_local", this, out)

InitPropertyLocalOf(inputs) ==
    \E this \in ByteArrays(objects), input \in inputs :
        LET out == init_property_local(objects, this, input[1], input[2])
        IN  Running /\ Apply(this, out) /\ last' = Op("init_property_local", this, out)

DeletePropertyOf(names) ==
    \E this \in ByteArrays(objects), name \in names, policy \in DeletePolicies :
        LET out == delete_property(objects, this, name, policy)
        IN  Running /\ Apply(this, out) /\ last' = Op("delete_property", this, out)

HasOwnProperty ==
    \E this \in ByteArrays(objects), name \in QNames :
        LET out == has_own_property(objects, this, name)
        IN  Running /\ Apply(this, out) /\ last' = Op("has_own_property", this, out)

ResolveAny ==
    \E this \in ByteArrays(objects), local_name \in LocalNames :
        LET out == resolve_any(objects, this, local_name)
        IN  Running /\ Apply(this, out) /\ last' = Op("resolve_any", this, out)

\* a class trait declares a constant on the object (instance trait installation)
InstallConst ==
    \E this \in ByteArrays(objects), name \in QNames, value \in ConstValues :
        LET out == install_const(objects, this, name, value)
        IN  /\ Running
            /\ ~has_entry(objects[this].table, name)
            /\ Apply(this, out)
            /\ last' = Op("install_const", this, out)

\* derive: the new object is added to the heap
Derive ==
    \E this \in ByteArrays(objects) :
        /\ Running
        /\ Len(objects) < Len(SystemHeap) + 1 + MaxObjects
        /\ objects' = Append(objects, ByteArrayObject_derive(objects, this))
        /\ last' = Done("derive", "Ok", <<>>)

GetPropertyLocal == GetPropertyLocalOf(QNames)
SetPropertyLocal == SetPropertyLocalOf(WriteInputs(objects))
InitPropertyLocal == InitPropertyLocalOf(WriteInputs(objects))
DeleteProperty == DeletePropertyOf(QNames)

Init ==
    /\ objects = SystemHeap \o <<bytearray_allocator(ByteArrayClass, ByteArrayProto)>>
    /\ last = NoOp

\* one ByteArrayObject under every operation of the protocol
Next ==
    \/ GetPropertyLocal
    \/ SetPropertyLocal
    \/ InitPropertyLocal
    \/ DeleteProperty
    \/ HasOwnProperty
    \/ ResolveAny
    \/ InstallConst

Spec == Init /\ [][Next]_vars

\* the names and the written values of SpecResolve: two names the table serves
\* and one the buffer serves
ResolveNames == {QName(Public, WordName), QName(Private, <<"0">>), QName(Public, <<"0">>)}
ResolveInputs == ResolveNames \X {Number(-1)}

\* a class trait declares a virtual property on the object
InstallVirtual ==
    \E this \in ByteArrays(objects), name \in ResolveNames, fails \in BOOLEAN :
        LET out == install_virtual(objects, this, name, fails)
        IN  /\ Running
            /\ ~has_entry(objects[this].table, name)
            /\ Apply(this, out)
            /\ last' = Op("install_virtual", this, out)

ResolveGetPropertyLocal == GetPropertyLocalOf(ResolveNames)
ResolveSetPropertyLocal == SetPropertyLocalOf(ResolveInputs)
ResolveInitPropertyLocal == InitPropertyLocalOf(ResolveInputs)
ResolveDeleteProperty == DeletePropertyOf(ResolveNames)

\* one ByteArrayObject whose table holds virtual properties, under reads and writes
NextResolve ==
    \/ InstallVirtual
    \/ ResolveGetPropertyLocal
    \/ ResolveSetPropertyLocal
    \/ ResolveInitPropertyLocal
    \/ ResolveDeleteProperty

SpecResolve == Init /\ [][NextResolve]_vars

\* the public index names, and the values written under them in SpecDerive
PublicIndexNames == {QName(Public, decimal(i)) : i \in 0..MaxIndex}
DeriveInputs == PublicIndexNames \X {Number(-1)}

DeriveGetPropertyLocal == GetPropertyLocalOf(PublicIndexNames)
DeriveSetPropertyLocal == SetPropertyLocalOf(DeriveInputs)
DeriveInitPropertyLocal == InitPropertyLocalOf(DeriveInputs)
DeriveDeleteProperty == DeletePropertyOf(PublicIndexNames)

\* a ByteArrayObject and the objects derived from it, under the index operations
NextDerive ==
    \/ Derive
    \/ DeriveGetPropertyLocal
    \/ DeriveSetPropertyLocal
    \/ DeriveInitPropertyLocal
    \/ DeriveDeleteProperty

SpecDerive == Init /\ [][NextDerive]_vars

-----------------------------------------------------------------------------
(* Vocabulary of the properties *)

StorageCalls == {"storage.get", "storage.set", "storage.delete"}
BaseCalls == {"base.get_property_local", "base.set_property_local",
              "base.init_property_local", "base.delete_property",
              "base.has_own_property", "base.resolve_any", "base.install_const",
              "base.install_virtual",
              "base.is_property_final", "base.is_property_overwritable"}

CallsOn(out, this, calls) ==
    {k \in 1..Len(out.events) : out.events[k].obj = this /\ out.events[k].ev \in calls}

\* the operation touched the buffer only: no call on the table, the table as before
BufferOnly(this, out) ==
    /\ CallsOn(out, this, BaseCalls) = {}
    /\ out.data.table = objects[this].table
    /\ out.status = "Ok" => CallsOn(out, this, StorageCalls) # {}

\* the operation touched the table only: no call on the buffer, the buffer as before
TableOnly(this, out) ==
    /\ CallsOn(out, this, StorageCalls) = {}
    /\ out.data.storage = objects[this].storage
    /\ out.status = "Ok" => CallsOn(out, this, BaseCalls) # {}

\* the local name without a leading '+' and without leading zeros
RECURSIVE strip_zero_chars(_)
strip_zero_chars(s) ==
    IF Len(s) > 1 /\ s[1] = "0" THEN strip_zero_chars(Tail(s)) ELSE s

Numeral(local) ==
    strip_zero_chars(IF local # <<>> /\ local[1] = "+" THEN Tail(local) ELSE local)

\* the local name is a non-negative base-10 integer: digits, after an optional '+'
IsDecimalNatural(local) ==
    LET n == Numeral(local)
    IN  n # <<>> /\ \A k \in 1..Len(n) : n[k] \in {"0", "1", "2", "3", "4", "5", "6", "7", "8", "9"}

\* a decimal natural that is at most usize::MAX
FitsUsize(local) ==
    LET n == Numeral(local)
        d == [k \in 1..Len(n) |-> to_digit(n[k])]
    IN  \/ Len(n) < Len(USIZE_MAX_DIGITS)
        \/ Len(n) = Len(USIZE_MAX_DIGITS) /\ ~digits_gt(d, USIZE_MAX_DIGITS)

\* the local name denotes the index i
DenotesIndex(local, i) == Numeral(local) = decimal(i)

\* the outcomes of the five routed operations for one name, over every value and policy
RoutedOutcomes(this, name) ==
    {get_property_local(objects, this, name), has_own_property(objects, this, name)}
        \cup {set_property_local(objects, this, name, v) : v \in ValuesIn(objects)}
        \cup {init_property_local(objects, this, name, v) : v \in ValuesIn(objects)}
        \cup {delete_property(objects, this, name, p) : p \in DeletePolicies}

\* the outcome of set_property_local or init_property_local
Write(op, this, name, value) ==
    IF op = "set_property_local" THEN set_property_local(objects, this, name, value)
    ELSE init_property_local(objects, this, name, value)

WriteOps == {"set_property_local", "init_property_local"}

-----------------------------------------------------------------------------
(* Properties of ByteArrayObject, checked under Spec *)

\* C1: in every reachable state, after set_property_local or init_property_local
\* with the public name i and a numeric value v succeeds, get_property_local
\* with the public name i returns the unsigned integer v mod 256.
C1_GetAfterSet ==
    \A this \in ByteArrays(objects), i \in 0..MaxIndex, v \in NumberValues, op \in WriteOps :
        LET name == QName(Public, decimal(i))
            out == Write(op, this, name, v)
            after == [objects EXCEPT ![this] = out.data]
        IN  out.status = "Ok" =>
                get_property_local(after, this, name).ret = Unsigned(v.n % 256)

\* a write has succeeded and a read of an index returns 255, the byte of -1
C1_Witness ==
    /\ last.op \in WriteOps /\ last.status = "Ok"
    /\ \E this \in ByteArrays(objects), i \in 0..MaxIndex :
           get_property_local(objects, this, QName(Public, decimal(i))).ret = Unsigned(255)

\* C2: a byte set at an index i at or beyond the buffer length L makes the
\* length i + 1, leaves every position below L as it was, makes every position
\* j with L <= j < i read 0, and position i hold the stored byte.
C2_GrowthZeroFills ==
    \A this \in ByteArrays(objects), i \in 0..MaxIndex, v \in NumberValues, op \in WriteOps :
        LET before == objects[this].storage
            out == Write(op, this, QName(Public, decimal(i)), v)
            grown == out.data.storage
        IN  (out.status = "Ok" /\ i >= Len(before)) =>
                /\ Len(grown) = i + 1
                /\ \A j \in 0..(Len(before) - 1) : grown[j + 1] = before[j + 1]
                /\ \A j \in Len(before)..(i - 1) : grown[j + 1] = 0
                /\ grown[i + 1] = v.n % 256

\* a write beyond the end of the buffer has happened: a zero, then the byte 255
C2_Witness ==
    /\ last.op \in WriteOps /\ last.status = "Ok"
    /\ \E this \in ByteArrays(objects) : objects[this].storage = <<0, 255>>

\* C3 as claimed: get, set, init, has and delete are served by the buffer exactly
\* when the name is public and its local name is a non-negative base-10 integer,
\* and by the generic table otherwise.
C3_RoutingAsClaimed ==
    \A this \in ByteArrays(objects), name \in QNames :
        \A out \in RoutedOutcomes(this, name) :
            IF is_public(name.ns) /\ IsDecimalNatural(name.local)
            THEN BufferOnly(this, out)
            ELSE TableOnly(this, out)

\* C3 as amended: get, set, init, has and delete are served by the buffer, and
\* neither read nor change the generic table whatever it holds, exactly when the
\* name is public and its local name is a non-negative base-10 integer that fits
\* the unsigned machine word; every other name, a decimal name too large for the
\* machine word included, is served by the table and leaves the buffer alone.
C3_Routing ==
    \A this \in ByteArrays(objects), name \in QNames :
        \A out \in RoutedOutcomes(this, name) :
            IF is_public(name.ns) /\ IsDecimalNatural(name.local) /\ FitsUsize(name.local)
            THEN BufferOnly(this, out)
            ELSE TableOnly(this, out)

\* the table holds an entry under a public index name and the buffer serves a
\* write to that name; a numeric name of a private namespace is in the table
C3_Witness ==
    /\ last.op \in WriteOps /\ last.status = "Ok"
    /\ \E this \in ByteArrays(objects) :
           /\ has_entry(objects[this].table, QName(Public, <<"0">>))
           /\ Len(objects[this].storage) > 0

\* C5: no operation requests a permit (read or write) on an object whose write
\* permit it still holds, whatever value set_property_local or
\* init_property_local coerces: the operation performed last requested none.
C5_NoOverlapInRun == ~last.overlap

\* the entry of a final, non-overwritable property
IsFinalEntry(e) == e.final /\ ~e.overwritable

\* C6 as claimed: set_property_local on a final, non-overwritable property
\* succeeds and leaves the whole object as it was; init_property_local on it
\* writes the value to the property.
C6_FinalAsClaimed ==
    \A this \in ByteArrays(objects), v \in ValuesIn(objects) :
        \A e \in {x \in objects[this].table : IsFinalEntry(x)} :
            /\ set_property_local(objects, this, e.name, v).status = "Ok"
            /\ set_property_local(objects, this, e.name, v).data = objects[this]
            /\ base_get_property_local(
                   init_property_local(objects, this, e.name, v).data.table, e.name) = v

\* C6 as amended: the same, for a final, non-overwritable property whose name
\* the generic table serves (any name but a public index name).
C6_FinalOnTablePath ==
    \A this \in ByteArrays(objects), v \in ValuesIn(objects) :
        \A e \in {x \in objects[this].table : IsFinalEntry(x)} :
            ~(is_public(e.name.ns) /\ IsDecimalNatural(e.name.local) /\ FitsUsize(e.name.local)) =>
                /\ set_property_local(objects, this, e.name, v).status = "Ok"
                /\ set_property_local(objects, this, e.name, v).data = objects[this]
                /\ init_property_local(objects, this, e.name, v).status = "Ok"
                /\ base_get_property_local(
                       init_property_local(objects, this, e.name, v).data.table, e.name) = v

\* a set has been performed on an object holding a constant under a table-served
\* name, and the constant still has the value it was declared with
C6_Witness ==
    /\ last.op = "set_property_local" /\ last.status = "Ok"
    /\ \E this \in ByteArrays(objects) :
           \E e \in objects[this].table :
               /\ IsFinalEntry(e) /\ e.name = QName(Public, WordName)
               /\ e.value \in ConstValues

\* delete_property removed something: a table entry, or the buffer element at the index
Removed(this, name, out) ==
    \/ out.data.table # objects[this].table
    \/ /\ is_public(name.ns) /\ IsDecimalNatural(name.local) /\ FitsUsize(name.local)
       /\ \E i \in 0..(Len(objects[this].storage) - 1) : DenotesIndex(name.local, i)

\* C7: delete_property returns true exactly when it removed a buffer entry or a
\* table entry, and false when nothing was removed, for every name.
C7_DeleteReportsRemoval ==
    \A this \in ByteArrays(objects), name \in QNames, policy \in DeletePolicies :
        LET out == delete_property(objects, this, name, policy)
        IN  out.ret = Bool(Removed(this, name, out))

\* C8: resolve_any returns the public namespace for every local name that
\* denotes an index below the buffer length, whatever the table holds, and
\* what the base table's resolve_any returns for every other local name.
C8_ResolveAny ==
    \A this \in ByteArrays(objects), local \in LocalNames :
        LET data == objects[this]
            out == resolve_any(objects, this, local)
        IN  /\ out.status = "Ok"
            /\ IF \E i \in 0..(Len(data.storage) - 1) : DenotesIndex(local, i)
               THEN out.ret = SomeNs(Public)
               ELSE out.ret = base_resolve_any(data.table, local)

\* resolve_any has run on an object whose buffer covers index 0 while the table
\* has "0" under the private namespace only: the answer is the public namespace
C8_Witness ==
    /\ last.op = "resolve_any"
    /\ \E this \in ByteArrays(objects) :
           /\ Len(objects[this].storage) > 0
           /\ has_entry(objects[this].table, QName(Private, <<"0">>))
           /\ resolve_any(objects, this, <<"0">>).ret = SomeNs(Public)

\* C20: set_property_local and init_property_local with a public index name
\* and a value whose coercion to an unsigned 32-bit integer fails return the
\* failure and leave the object as it was: the buffer with its length and every
\* byte, and the generic table.
C20_FailedCoercionChangesNothing ==
    \A this \in ByteArrays(objects), i \in 0..MaxIndex, op \in WriteOps :
        LET out == Write(op, this, QName(Public, decimal(i)), Thrower)
        IN  /\ out.status = "Err"
            /\ out.data.storage = objects[this].storage
            /\ out.data.table = objects[this].table
            /\ out.data = objects[this]

\* a write of a value whose coercion fails has been refused on an object that
\* holds bytes and a table entry
C20_Witness ==
    /\ last.op \in WriteOps /\ last.status = "Err"
    /\ objects[last.this].storage = <<255>>
    /\ objects[last.this].table # {}

-----------------------------------------------------------------------------
(* Properties of ByteArrayObject derive, checked under SpecDerive *)

\* C4: every derive step adds one object to the heap, a ByteArrayObject whose
\* buffer is empty whatever the source's buffer holds, and leaves every object
\* of the heap, the source included, as it was.
C4_DeriveEmpty ==
    [][last'.op = "derive" =>
          /\ Len(objects') = Len(objects) + 1
          /\ objects'[Len(objects')].kind = "ByteArrayObject"
          /\ Len(objects'[Len(objects')].storage) = 0
          /\ \A h \in Handles(objects) : objects'[h] = objects[h]]_vars

\* derive has just run on a source whose buffer is not empty
C4_Witness ==
    /\ last.op = "derive"
    /\ LET child == Len(objects)
       IN  /\ objects[child].kind = "ByteArrayObject"
           /\ objects[child].proto \in ByteArrays(objects)
           /\ objects[objects[child].proto].storage = <<0, 255>>
           /\ objects[child].storage = <<>>

-----------------------------------------------------------------------------
(* DomainObject: an object wrapping a Domain *)

\* the domains of the model: the system domain and one application domain
Domains == {"system", "app"}

SomeDomain(domain) == [some |-> TRUE, domain |-> domain]
NoDomain == [some |-> FALSE, domain |-> "none"]

ConstructorName == QName(Public, <<"c", "o", "n", "s", "t", "r", "u", "c", "t", "o", "r">>)

DomainObjectData(base, domain) ==
    [kind |-> "DomainObject", proto |-> base.proto, class |-> base.class,
     table |-> base.table, domain |-> domain]

\* as_application_domain: the wrapped Domain of a DomainObject, None for every other object
as_application_domain(data) ==
    IF data.kind = "DomainObject" THEN SomeDomain(data.domain) ELSE NoDomain

\* the scope of a class object, named by the object at its base (0: no scope)
get_scope(objs, class) ==
    IF objs[class].kind = "ClassObject" THEN objs[class].scope ELSE 0

\* mutant: the bootstrap object is linked to a prototype and a class
from_early_domain_linked(domain) ==
    DomainObjectData(ScriptObjectData_base_new(2, 3), domain)

\* from_early_domain: no prototype, no class, nothing installed, nothing run
from_early_domain(domain) ==
    DomainObjectData(ScriptObjectData_base_new(0, 0), domain)

AllocErr == [status |-> "Err", data |-> Undefined]

\* mutant: the allocator wraps the system domain whatever the scope holds
appdomain_allocator_unscoped(objs, class, proto) ==
    [status |-> "Ok",
     data |-> DomainObjectData(ScriptObjectData_base_new(proto, class), "system")]

\* appdomain_allocator: the Domain is taken from the object at the base of the
\* class's scope; no scope, or no domain there, is a failure
appdomain_allocator(objs, class, proto) ==
    LET scope == get_scope(objs, class)
    IN  IF scope = 0 THEN AllocErr
        ELSE LET domain == as_application_domain(objs[scope])
             IN  IF ~domain.some THEN AllocErr
                 ELSE [status |-> "Ok",
                       data |-> DomainObjectData(
                                    ScriptObjectData_base_new(proto, class), domain.domain)]

\* has_own_property and get_property_local of the object's concrete variant: a
\* ByteArrayObject answers with its overlay, every other object with its table
TObject_has_own_property(objs, this, name) ==
    IF objs[this].kind = "ByteArrayObject"
    THEN has_own_property(objs, this, name).ret = Bool(TRUE)
    ELSE base_has_own_property(objs[this].table, name)

TObject_get_property_local(objs, this, name) ==
    IF objs[this].kind = "ByteArrayObject"
    THEN get_property_local(objs, this, name).ret
    ELSE base_get_property_local(objs[this].table, name)

RECURSIVE get_property(_, _, _)
\* the resolution protocol: the object's own overlay and table, else the same
\* steps on its prototype chain, else undefined
get_property(objs, this, name) ==
    IF TObject_has_own_property(objs, this, name)
    THEN TObject_get_property_local(objs, this, name)
    ELSE IF objs[this].proto # 0 THEN get_property(objs, objs[this].proto, name)
    ELSE Undefined

\* Value::coerce_to_object: an object reference is the object; undefined is a failure
coerce_to_object(value) ==
    IF value.tag = "ObjectRef" THEN [status |-> "Ok", object |-> value.ref]
    ELSE [status |-> "Err", object |-> 0]

\* the result of a construction: its status, the heap afterwards, the steps run
\* on the new object
Built(status, heap, steps) == [status |-> status, heap |-> heap, steps |-> steps]

\* one step of a construction: the call, the class and prototype it is given,
\* the object it is made on, and the arguments passed on to script code
Step(call, class, proto, receiver, args) ==
    [call |-> call, class |-> class, proto |-> proto, receiver |-> receiver, args |-> args]

\* GcCell::allocate of an object with this class and prototype
allocate(objs, class, proto) == Step("allocate", class, proto, Len(objs) + 1, <<>>)

\* this.install_instance_traits(activation, class)
install_instance_traits(objs, class) ==
    Step("install_instance_traits", class, 0, Len(objs) + 1, <<>>)

\* class.call_init(Some(this), &[], activation, Some(class))
call_init(objs, class) == Step("call_init", class, 0, Len(objs) + 1, <<>>)

\* mutant: the initializer is called whether or not the traits were installed
construct_init_always(objs, data, traits_ok, init_ok) ==
    Built(IF init_ok THEN "Ok" ELSE "Err",
          IF init_ok THEN Append(objs, data) ELSE objs,
          <<allocate(objs, data.class, data.proto),
            install_instance_traits(objs, data.class),
            call_init(objs, data.class)>>)

\* allocate, install the instance traits, call the instance initializer; the object
\* is returned when both succeeded and is unreachable otherwise
construct(objs, data, traits_ok, init_ok) ==
    LET allocated == <<allocate(objs, data.class, data.proto),
                       install_instance_traits(objs, data.class)>>
    IN  IF ~traits_ok THEN Built("Err", objs, allocated)
        ELSE IF ~init_ok
             THEN Built("Err", objs, allocated \o <<call_init(objs, data.class)>>)
             ELSE Built("Ok", Append(objs, data),
                        allocated \o <<call_init(objs, data.class)>>)

\* DomainObject derive: the constructor is looked up on the object itself
DomainObject_derive(objs, this) ==
    LET constr == coerce_to_object(get_property(objs, this, ConstructorName))
    IN  IF constr.status # "Ok" THEN Built("Err", objs, <<>>)
        ELSE LET made == appdomain_allocator(objs, constr.object, this)
             IN  IF made.status # "Ok" THEN Built("Err", objs, <<>>)
                 ELSE Built("Ok", Append(objs, made.data), <<>>)

-----------------------------------------------------------------------------
(* The heap of the DomainObject model *)

EarlyGlobals == 1
PlainObject == 2
AppDomainClass == 3
GlobalClass == 4
NoScopeClass == 5
PlainScopeClass == 6
AppDomainProto == 7
GlobalProto == 8
NoScopeProto == 9
PlainScopeProto == 10
AppDomainObject == 11

\* a prototype object whose "constructor" property is the class object `class`
Prototype(class) ==
    [ScriptObject(0, 0) EXCEPT
        !.table = {Entry(ConstructorName, ObjectRef(class), FALSE, TRUE)}]

\* from_domain and script_global take their class and prototype from the system classes
from_domain(objs, domain, traits_ok, init_ok) ==
    construct(objs,
              DomainObjectData(ScriptObjectData_base_new(AppDomainProto, AppDomainClass), domain),
              traits_ok, init_ok)

script_global(objs, domain, traits_ok, init_ok) ==
    construct(objs,
              DomainObjectData(ScriptObjectData_base_new(GlobalProto, GlobalClass), domain),
              traits_ok, init_ok)

\* the heap after VM startup: the bootstrap globals, the system classes and
\* prototypes, two classes whose scope lacks a domain, and an application domain object
DomainHeap ==
    <<from_early_domain("system"),
      ScriptObject(0, 0),
      ClassObject(EarlyGlobals),
      ClassObject(EarlyGlobals),
      ClassObject(0),
      ClassObject(PlainObject),
      Prototype(AppDomainClass),
      Prototype(GlobalClass),
      Prototype(NoScopeClass),
      Prototype(PlainScopeClass),
      DomainObjectData(ScriptObjectData_base_new(AppDomainProto, AppDomainClass), "app")>>

DomainObjects(objs) == {h \in Handles(objs) : objs[h].kind = "DomainObject"}

HasRoom == Len(objects) < Len(DomainHeap) + MaxObjects

DomainOp(op, built) == Done(op, built.status, built.steps)

\* the prototypes and classes a caller wires a bootstrap object to
WiredProtos == {AppDomainProto, NoScopeProto, PlainScopeProto}
WiredClasses == {AppDomainClass}

FromEarlyDomain ==
    \E domain \in Domains :
        /\ HasRoom
        /\ objects' = Append(objects, from_early_domain(domain))
        /\ last' = Done("from_early_domain", "Ok", <<allocate(objects, 0, 0)>>)

FromDomain ==
    \E domain \in Domains, traits_ok \in BOOLEAN, init_ok \in BOOLEAN :
        LET built == from_domain(objects, domain, traits_ok, init_ok)
        IN  /\ HasRoom
            /\ objects' = built.heap
            /\ last' = DomainOp("from_domain", built)

ScriptGlobal ==
    \E domain \in Domains, traits_ok \in BOOLEAN, init_ok \in BOOLEAN :
        LET built == script_global(objects, domain, traits_ok, init_ok)
        IN  /\ HasRoom
            /\ objects' = built.heap
            /\ last' = DomainOp("script_global", built)

DomainDerive ==
    \E this \in DomainObjects(objects) :
        LET built == DomainObject_derive(objects, this)
        IN  /\ built.status = "Ok" => HasRoom
            /\ objects' = built.heap
            /\ last' = DomainOp("derive", built)

\* a caller wires a bootstrap object: set_proto
SetProto ==
    \E this \in DomainObjects(objects), proto \in WiredProtos :
        /\ objects[this].proto = 0
        /\ objects' = [objects EXCEPT ![this].proto = proto]
        /\ last' = Done("set_proto", "Ok", <<>>)

\* a caller wires a bootstrap object: its class link
SetClass ==
    \E this \in DomainObjects(objects), class \in WiredClasses :
        /\ objects[this].class = 0
        /\ objects' = [objects EXCEPT ![this].class = class]
        /\ last' = Done("set_class", "Ok", <<>>)

InitDomain ==
    /\ objects = DomainHeap
    /\ last = NoOp

NextDomain ==
    \/ FromEarlyDomain
    \/ FromDomain
    \/ ScriptGlobal
    \/ DomainDerive
    \/ SetProto
    \/ SetClass

SpecDomain == InitDomain /\ [][NextDomain]_vars

-----------------------------------------------------------------------------
(* Properties of DomainObject, checked under SpecDomain *)

\* C9: from_early_domain yields, for every Domain, a DomainObject with no
\* prototype and no class whose as_application_domain is the Domain given; a
\* from_early_domain step adds that object alone and runs neither the instance
\* trait installation nor the instance initializer; and an absent prototype or
\* class of a DomainObject stays absent in every step but a caller's set_proto or
\* set_class.
C9_EarlyDomainBare ==
    [][/\ \A domain \in Domains :
              LET early == from_early_domain(domain)
              IN  /\ early.proto = 0 /\ early.class = 0
                  /\ as_application_domain(early) = SomeDomain(domain)
       /\ last'.op = "from_early_domain" =>
              /\ Len(objects') = Len(objects) + 1
              /\ \E domain \in Domains :
                     /\ objects'[Len(objects')].kind = "DomainObject"
                     /\ objects'[Len(objects')].proto = 0
                     /\ objects'[Len(objects')].class = 0
                     /\ as_application_domain(objects'[Len(objects')]) = SomeDomain(domain)
              /\ \A k \in 1..Len(last'.steps) : last'.steps[k].call = "allocate"
              /\ \A h \in Handles(objects) : objects'[h] = objects[h]
       /\ \A h \in DomainObjects(objects) :
              /\ (objects[h].proto = 0 /\ objects'[h].proto # 0) => last'.op = "set_proto"
              /\ (objects[h].class = 0 /\ objects'[h].class # 0) => last'.op = "set_class"]_vars

\* an object built by from_early_domain for the application domain is still
\* without prototype and class after another operation has run
C9_Witness ==
    /\ last.op \in {"from_domain", "derive"}
    /\ \E h \in DomainObjects(objects) :
           /\ h > Len(DomainHeap)
           /\ objects[h].proto = 0 /\ objects[h].class = 0
           /\ as_application_domain(objects[h]) = SomeDomain("app")

\* the constructor derive resolves on `this`: the status of the lookup and the object
Constructor(this) == coerce_to_object(get_property(objects, this, ConstructorName))

\* the constructor has no scope, or the object at the base of its scope is no domain object
LacksDomain(class) ==
    \/ get_scope(objects, class) = 0
    \/ objects[get_scope(objects, class)].kind # "DomainObject"

\* derive returned a DomainObject of class `class` and prototype `this` wrapping
\* the Domain at the base of the scope of `class`, and nothing else changed
DerivedFrom(this, class, built) ==
    /\ built.status = "Ok"
    /\ Len(built.heap) = Len(objects) + 1
    /\ SubSeq(built.heap, 1, Len(objects)) = objects
    /\ LET new == built.heap[Len(built.heap)]
       IN  /\ new.kind = "DomainObject"
           /\ new.class = class
           /\ new.proto = this
           /\ new.domain = objects[get_scope(objects, class)].domain

\* derive reported a failure and allocated nothing
DeriveFailed(built) == built.status = "Err" /\ built.heap = objects

\* C10 as claimed: derive fails and allocates nothing when the constructor has no
\* scope or the base of its scope is not a domain object, and otherwise returns
\* a DomainObject of that class, with the source as prototype, wrapping the
\* Domain at the base of the constructor's scope.
C10_DeriveAsClaimed ==
    \A this \in DomainObjects(objects) :
        LET c == Constructor(this)
            built == DomainObject_derive(objects, this)
        IN  IF c.status = "Ok" /\ LacksDomain(c.object)
            THEN DeriveFailed(built)
            ELSE /\ c.status = "Ok"
                 /\ DerivedFrom(this, c.object, built)

\* C10 as amended: derive fails and allocates nothing when the "constructor"
\* property resolves to no object (it is undefined), when the constructor has
\* no scope, or when the base of its scope is not a domain object; otherwise it
\* returns a DomainObject of that class, with the source as prototype, wrapping
\* the Domain at the base of the constructor's scope.
C10_Derive ==
    \A this \in DomainObjects(objects) :
        LET c == Constructor(this)
            built == DomainObject_derive(objects, this)
        IN  IF c.status # "Ok" \/ LacksDomain(c.object)
            THEN DeriveFailed(built)
            ELSE DerivedFrom(this, c.object, built)

\* derive has returned a child of an application domain object: the child wraps
\* the system domain of the constructor's scope, not the domain of its source
C10_Witness ==
    /\ last.op = "derive" /\ last.status = "Ok"
    /\ LET new == objects[Len(objects)]
       IN  /\ new.kind = "DomainObject"
           /\ new.proto = AppDomainObject
           /\ objects[new.proto].domain = "app"
           /\ new.class = AppDomainClass
           /\ new.domain = "system"

-----------------------------------------------------------------------------
(* Properties of a ByteArrayObject and the objects derived from it, checked
   under SpecDerive *)

\* C16: an object derived from a ByteArrayObject never inherits buffer contents:
\* a qualified read of the public name i on the child, resolved through the
\* child and then its prototype, returns no byte while the child's own buffer
\* has no entry at i.
C16_NoInheritedBytes ==
    \A child \in ByteArrays(objects), i \in 0..MaxIndex :
        (/\ objects[child].proto \in ByteArrays(objects)
         /\ ~ByteArrayStorage_get(objects[child].storage, i).some)
            => get_property(objects, child, QName(Public, decimal(i))).tag # "Unsigned"

\* C17: a ByteArrayObject and an object derived from it share no buffer: in
\* every step, derive included, the buffer of an object changes only when the
\* step is an index set, init or delete applied to that very object.
C17_NoSharedStorage ==
    [][\A h \in ByteArrays(objects) :
           objects'[h].storage # objects[h].storage =>
               /\ last'.this = h
               /\ last'.op \in {"set_property_local", "init_property_local",
                                "delete_property"}]_vars

\* after derive, writes on the source and on the child have left the two
\* buffers with different contents
C17_Witness ==
    /\ last.op \in {"set_property_local", "init_property_local", "delete_property"}
    /\ \E child \in ByteArrays(objects) :
           /\ objects[child].proto \in ByteArrays(objects)
           /\ objects[child].storage = <<255>>
           /\ objects[objects[child].proto].storage = <<0, 255>>

-----------------------------------------------------------------------------
(* Properties of the DomainObject constructors, checked under SpecDomain *)

\* the construction allocated with this class and prototype, installed the
\* instance traits of the class, called the initializer once, on the new object
\* and without arguments, only when the traits were installed, and returned
\* the object only when both steps succeeded
ConstructedInOrder(built, class, proto, domain, traits_ok, init_ok) ==
    LET new == Len(objects) + 1
        allocated == <<Step("allocate", class, proto, new, <<>>),
                       Step("install_instance_traits", class, 0, new, <<>>)>>
        initialized == <<Step("call_init", class, 0, new, <<>>)>>
    IN  /\ built.steps = IF traits_ok THEN allocated \o initialized ELSE allocated
        /\ built.status = IF traits_ok /\ init_ok THEN "Ok" ELSE "Err"
        /\ built.status = "Err" => built.heap = objects
        /\ built.status = "Ok" =>
               /\ built.heap = Append(objects, built.heap[new])
               /\ built.heap[new].kind = "DomainObject"
               /\ built.heap[new].class = class
               /\ built.heap[new].proto = proto
               /\ as_application_domain(built.heap[new]) = SomeDomain(domain)

\* C18: from_domain and script_global allocate the object with the
\* application-domain (respectively global) class and prototype, then install
\* the instance traits of that class, then call the instance initializer once
\* with the new object as receiver and no arguments; the initializer is not
\* called when the trait installation fails, and the object is returned only
\* when both steps succeeded, the failure otherwise.
C18_ConstructionOrder ==
    \A domain \in Domains, traits_ok \in BOOLEAN, init_ok \in BOOLEAN :
        /\ ConstructedInOrder(from_domain(objects, domain, traits_ok, init_ok),
                              AppDomainClass, AppDomainProto, domain, traits_ok, init_ok)
        /\ ConstructedInOrder(script_global(objects, domain, traits_ok, init_ok),
                              GlobalClass, GlobalProto, domain, traits_ok, init_ok)

\* script_global has returned an object of the global class after both steps
C18_Witness ==
    /\ last.op = "script_global" /\ last.status = "Ok"
    /\ Len(last.steps) = 3
    /\ last.steps[3].call = "call_init" /\ last.steps[3].receiver = Len(objects)
    /\ objects[Len(objects)].class = GlobalClass
    /\ objects[Len(objects)].domain = "app"

-----------------------------------------------------------------------------
(* Properties of the generic-table path, checked under SpecResolve *)

\* a permit on the object, taken by one of the first k - 1 events, is still held
\* when event k starts
PermitHeld(events, k, this) ==
    \E i \in 1..(k - 1) :
        /\ events[i].ev \in {"read", "write"} /\ events[i].obj = this
        /\ \A j \in (i + 1)..(k - 1) :
               ~(events[j].ev \in {"drop_read", "drop_write"} /\ events[j].obj = this)

\* the table-path outcomes of get, set and init for one name
TablePathOutcomes(this, name) ==
    {get_property_local(objects, this, name)}
        \cup {set_property_local(objects, this, name, v) : v \in NumberValues}
        \cup {init_property_local(objects, this, name, v) : v \in NumberValues}

\* the resolution of the deferred result of the table operation on this name fails
ResolutionFails(this, name) ==
    /\ has_entry(objects[this].table, name)
    /\ entry_of(objects[this].table, name).value = Virtual(TRUE)

\* C19: on the generic-table path of get_property_local, set_property_local
\* and init_property_local the table operation runs under the operation's
\* permit, the permit is released before the deferred result is resolved (no
\* permit of the operation is held when the resolution starts), and the
\* operation reports success exactly when that resolution succeeded.
C19_ResolveAfterRelease ==
    \A this \in ByteArrays(objects), name \in QNames :
        ~overlay_index(name).ok =>
            \A out \in TablePathOutcomes(this, name) :
                /\ \E b, r \in 1..Len(out.events) :
                       /\ b < r
                       /\ out.events[b].ev \in BaseCalls /\ out.events[b].obj = this
                       /\ PermitHeld(out.events, b, this)
                       /\ out.events[r] = Ev("resolve", this)
                       /\ ~PermitHeld(out.events, r, this)
                       /\ \A k \in 1..Len(out.events) :
                              out.events[k].ev = "resolve" => k = r
                /\ out.status = "Ok" <=> ~ResolutionFails(this, name)

\* a read of a virtual property whose getter throws has reported the failure
C19_Witness ==
    /\ last.op = "get_property_local" /\ last.status = "Err"
    /\ \E name \in ResolveNames : ResolutionFails(last.this, name)

-----------------------------------------------------------------------------
(* Strings and numbers of the String builtins *)

\* the longest receiver string of the model, in characters
MaxStringLen == 3

\* a string is a sequence of characters, a character is its Unicode scalar value
String(chars) == [tag |-> "String", chars |-> chars]

\* "a", "," and U+1F600, a character outside the Basic Multilingual Plane
LetterA == 97
Comma == 44
Astral == 128512
Chars == {LetterA, Comma, Astral}

StringsOfLen(n) == [1..n -> Chars]
Strings == UNION {StringsOfLen(n) : n \in 0..MaxStringLen}

\* the delimiters of the model: the empty string, and strings of one or two characters
Delimiters ==
    {<<>>, <<Comma>>, <<LetterA>>, <<Astral>>, <<Comma, Comma>>, <<LetterA, Comma>>}

\* "[object Object]", the string of an object that is no string
ObjectString == <<91, 111, 98, 106, 101, 99, 116, 32, 79, 98, 106, 101, 99, 116, 93>>

\* an f64: NaN, an infinity, or sign * (hi * 2^16 + lo + half / 2) with hi, lo < 2^16
NaN == [tag |-> "NaN"]
Infinity(sign) == [tag |-> "Inf", sign |-> sign]
F64(sign, hi, lo, half) ==
    [tag |-> "Fin", sign |-> sign, hi |-> hi, lo |-> lo, half |-> half]

\* -1, -0.5, -0, 0, 0.5, 1, 2, 3, 2^31 and 2^32 - 1
Finites ==
    {F64(-1, 0, 1, FALSE), F64(-1, 0, 0, TRUE), F64(-1, 0, 0, FALSE),
     F64(1, 0, 0, FALSE), F64(1, 0, 0, TRUE), F64(1, 0, 1, FALSE),
     F64(1, 0, 2, FALSE), F64(1, 0, 3, FALSE),
     F64(1, 32768, 0, FALSE), F64(1, 65535, 65535, FALSE)}

Floats == Finites \cup {NaN, Infinity(1), Infinity(-1)}

\* n < 0.0: false for NaN and for both zeros
lt_zero(n) ==
    \/ n.tag = "Inf" /\ n.sign = -1
    \/ n.tag = "Fin" /\ n.sign = -1 /\ (n.hi > 0 \/ n.lo > 0 \/ n.half)

is_nan(n) == n.tag = "NaN"

\* a usize: usize::MAX, or hi * 2^16 + lo
Usize(hi, lo) == [max |-> FALSE, hi |-> hi, lo |-> lo]
USIZE_MAX == [max |-> TRUE, hi |-> 65535, lo |-> 65535]

\* n as usize: truncation toward zero, saturating; NaN is 0
as_usize(n) ==
    CASE n.tag = "NaN" -> Usize(0, 0)
      [] n.tag = "Inf" -> IF n.sign = 1 THEN USIZE_MAX ELSE Usize(0, 0)
      [] n.tag = "Fin" -> IF n.sign = 1 THEN Usize(n.hi, n.lo) ELSE Usize(0, 0)

\* the usize is below a length of the model
usize_lt(u, len) == ~u.max /\ u.hi = 0 /\ u.lo < len

\* Value::coerce_to_number: a number is itself, undefined is NaN
coerce_to_number(value) == IF value.tag = "Undefined" THEN NaN ELSE value

\* Value::coerce_to_i32 (ToInt32): NaN and the infinities are 0, a finite number is
\* truncated and wrapped modulo 2^32 into the signed 32-bit range
coerce_to_i32(value) ==
    LET n == coerce_to_number(value)
    IN  IF n.tag # "Fin" THEN 0
        ELSE IF n.sign = 1
             THEN IF n.hi < 32768 THEN n.hi * 65536 + n.lo
                  ELSE (n.hi - 65536) * 65536 + n.lo
             ELSE IF n.hi < 32768 THEN -(n.hi * 65536 + n.lo)
                  ELSE IF n.hi = 32768 /\ n.lo = 0 THEN (-32768) * 65536
                  ELSE (65536 - n.hi) * 65536 - n.lo

\* i32::max(0) as usize
max0_as_usize(i) == IF i <= 0 THEN Usize(0, 0) ELSE Usize(i \div 65536, i % 65536)

\* the UTF-16 code units of one character
utf16_units(c) ==
    IF c < 65536 THEN <<c>>
    ELSE <<55296 + ((c - 65536) \div 1024), 56320 + ((c - 65536) % 1024)>>

RECURSIVE encode_utf16(_)
\* str::encode_utf16
encode_utf16(chars) ==
    IF chars = <<>> THEN <<>>
    ELSE utf16_units(chars[1]) \o encode_utf16(Tail(chars))

\* string_utils::utf16_code_unit_to_char: a surrogate becomes U+FFFD
utf16_code_unit_to_char(unit) ==
    IF unit >= 55296 /\ unit <= 57343 THEN 65533 ELSE unit

\* Iterator::nth
nth(seq, index) ==
    IF usize_lt(index, Len(seq))
    THEN [some |-> TRUE, item |-> seq[index.lo + 1]]
    ELSE [some |-> FALSE, item |-> 0]

\* Iterator::take
take(seq, limit) ==
    IF usize_lt(limit, Len(seq)) THEN SubSeq(seq, 1, limit.lo) ELSE seq

\* the first position at which the pattern occurs in the string, 0 if none
find(chars, pattern) ==
    LET at == {i \in 1..(Len(chars) - Len(pattern) + 1) :
                  SubSeq(chars, i, i + Len(pattern) - 1) = pattern}
    IN  IF at = {} THEN 0 ELSE CHOOSE i \in at : \A j \in at : i <= j

RECURSIVE str_split_dropping_empty(_, _)
\* mutant: empty pieces are dropped
str_split_dropping_empty(chars, pattern) ==
    LET i == find(chars, pattern)
    IN  IF i = 0 THEN (IF chars = <<>> THEN <<>> ELSE <<chars>>)
        ELSE (IF i = 1 THEN <<>> ELSE <<SubSeq(chars, 1, i - 1)>>)
                 \o str_split_dropping_empty(
                        SubSeq(chars, i + Len(pattern), Len(chars)), pattern)

RECURSIVE str_split(_, _)
\* str::split with a non-empty pattern: the pieces between the matches, found
\* from left to right, each search starting where the match before ended
str_split(chars, pattern) ==
    LET i == find(chars, pattern)
    IN  IF i = 0 THEN <<chars>>
        ELSE <<SubSeq(chars, 1, i - 1)>>
                 \o str_split(SubSeq(chars, i + Len(pattern), Len(chars)), pattern)

\* str::chars, each character as a string of its own
str_chars(chars) == [k \in 1..Len(chars) |-> <<chars[k]>>]

\* the receiver and the arguments of a native method
StringObject(chars) ==
    [kind |-> "PrimitiveObject", proto |-> 0, class |-> 0, table |-> {},
     value |-> String(chars)]

\* value_of: the string of a string object, the object itself otherwise
value_of(objs, this) ==
    IF objs[this].kind = "PrimitiveObject" THEN objs[this].value ELSE ObjectRef(this)

\* Value::coerce_to_string
coerce_to_string(objs, value) ==
    CASE value.tag = "String" -> value.chars
      [] value.tag = "ObjectRef" ->
           IF objs[value.ref].kind = "PrimitiveObject" THEN objs[value.ref].value.chars
           ELSE ObjectString

\* args.get(k): the argument, if given
arg(args, k) == IF Len(args) >= k THEN [some |-> TRUE, value |-> args[k]]
                ELSE [some |-> FALSE, value |-> Undefined]

unwrap_or(opt, default) == IF opt.some THEN opt.value ELSE default

ArrayObject_from_storage(entries) == [tag |-> "Array", entries |-> entries]

\* mutant: the code points are counted
length_in_chars(objs, this, args) ==
    IF this # 0 /\ value_of(objs, this).tag = "String"
    THEN Number(Len(value_of(objs, this).chars))
    ELSE Undefined

\* the getter of `length`
length(objs, this, args) ==
    IF this # 0 /\ value_of(objs, this).tag = "String"
    THEN Number(Len(encode_utf16(value_of(objs, this).chars)))
    ELSE Undefined

\* the index argument of charAt and charCodeAt: args[0], 0.0 when it is not given
index_argument(args) == coerce_to_number(unwrap_or(arg(args, 1), F64(1, 0, 0, FALSE)))

\* mutant: a negative index is not looked at before the conversion to usize
char_at_unchecked(objs, this, args) ==
    IF this # 0 /\ value_of(objs, this).tag = "String"
    THEN LET unit == nth(encode_utf16(value_of(objs, this).chars),
                         as_usize(index_argument(args)))
         IN  IF unit.some THEN String(<<utf16_code_unit_to_char(unit.item)>>)
             ELSE String(<<>>)
    ELSE Undefined

\* String.charAt
char_at(objs, this, args) ==
    IF this # 0 /\ value_of(objs, this).tag = "String"
    THEN LET s == value_of(objs, this).chars
             n == index_argument(args)
             index == IF ~is_nan(n) THEN as_usize(n) ELSE Usize(0, 0)
             unit == nth(encode_utf16(s), index)
         IN  IF lt_zero(n) THEN String(<<>>)
             ELSE IF unit.some THEN String(<<utf16_code_unit_to_char(unit.item)>>)
             ELSE String(<<>>)
    ELSE Undefined

\* String.charCodeAt
char_code_at(objs, this, args) ==
    IF this # 0 /\ value_of(objs, this).tag = "String"
    THEN LET s == value_of(objs, this).chars
             n == index_argument(args)
             index == IF ~is_nan(n) THEN as_usize(n) ELSE Usize(0, 0)
             unit == nth(encode_utf16(s), index)
         IN  IF lt_zero(n) THEN NaN
             ELSE IF unit.some THEN F64(1, 0, unit.item, FALSE)
             ELSE NaN
    ELSE Undefined

\* the limit of split: usize::MAX when args[1] is not given or undefined
split_limit(args) ==
    LET limit == unwrap_or(arg(args, 2), Undefined)
    IN  IF limit.tag = "Undefined" THEN USIZE_MAX
        ELSE max0_as_usize(coerce_to_i32(limit))

\* mutant: the empty delimiter is given to str::split, which adds an empty
\* piece at the start and at the end
split_entries_naive(chars, delimiter, limit) ==
    IF delimiter = <<>>
    THEN take(<<<<>>>> \o str_chars(chars) \o <<<<>>>>, limit)
    ELSE take(str_split(chars, delimiter), limit)

\* the entries of String.split for a delimiter that is a string
split_entries(chars, delimiter, limit) ==
    IF delimiter = <<>>
    THEN take(str_chars(chars), limit)
    ELSE take(str_split(chars, delimiter), limit)

\* String.split
split(objs, this, args) ==
    IF this # 0
    THEN LET delimiter == unwrap_or(arg(args, 1), Undefined)
         IN  IF delimiter.tag = "Undefined"
             THEN ArrayObject_from_storage(<<ObjectRef(this)>>)
             ELSE ArrayObject_from_storage(
                      [k \in DOMAIN split_entries(coerce_to_string(objs, ObjectRef(this)),
                                                  coerce_to_string(objs, delimiter),
                                                  split_limit(args)) |->
                          String(split_entries(coerce_to_string(objs, ObjectRef(this)),
                                               coerce_to_string(objs, delimiter),
                                               split_limit(args))[k])])
    ELSE Undefined

-----------------------------------------------------------------------------
(* The String builtins as native methods called by the interpreter *)

\* the receivers: none (0), or the object of the heap
Receivers == {0, 1}

\* the index arguments the interpreter passes to charAt and charCodeAt
IndexArgs == {<<>>} \cup {<<n>> : n \in Floats \cup {Undefined}}

\* the limits the interpreter passes to split: 2, -1, 2^31, NaN, undefined
CalledLimits ==
    {F64(1, 0, 2, FALSE), F64(-1, 0, 1, FALSE), F64(1, 32768, 0, FALSE), NaN, Undefined}

\* the arguments the interpreter passes to split
SplitArgs ==
    {<<>>, <<Undefined>>}
        \cup {<<String(d)>> : d \in Delimiters}
        \cup {<<String(d), limit>> : d \in Delimiters, limit \in CalledLimits}

\* the native method that ran last and the value it returned
Returned(op, this, ret) ==
    [op |-> op, this |-> this, status |-> "Ok", overlap |-> FALSE, steps |-> <<>>,
     ret |-> ret]

Length ==
    \E this \in Receivers :
        /\ last' = Returned("length", this, length(objects, this, <<>>))
        /\ UNCHANGED objects

CharAt ==
    \E this \in Receivers, args \in IndexArgs :
        /\ last' = Returned("charAt", this, char_at(objects, this, args))
        /\ UNCHANGED objects

CharCodeAt ==
    \E this \in Receivers, args \in IndexArgs :
        /\ last' = Returned("charCodeAt", this, char_code_at(objects, this, args))
        /\ UNCHANGED objects

Split ==
    \E this \in Receivers, args \in SplitArgs :
        /\ last' = Returned("split", this, split(objects, this, args))
        /\ UNCHANGED objects

\* the receiver is a string object, or an object that is no string
InitString ==
    /\ objects \in {<<StringObject(s)>> : s \in Strings} \cup {<<ScriptObject(0, 0)>>}
    /\ last = Returned("none", 0, Undefined)

NextString ==
    \/ Length
    \/ CharAt
    \/ CharCodeAt
    \/ Split

SpecString == InitString /\ [][NextString]_vars

\* the string receivers of the heap
StringReceivers == {h \in Handles(objects) : objects[h].kind = "PrimitiveObject"}

\* the string of a string receiver, and its UTF-16 code units
Str(this) == objects[this].value.chars
Units(this) == encode_utf16(Str(this))

-----------------------------------------------------------------------------
(* Properties of the String builtins, checked under SpecString *)

\* the numbers below zero: a negative finite number that is not -0, and -Infinity
NegativeFloats ==
    {n \in Floats : \/ n = Infinity(-1)
                    \/ n.tag = "Fin" /\ n.sign = -1 /\ (n.hi > 0 \/ n.lo > 0 \/ n.half)}

\* the numbers whose integer part is at or beyond the length: +Infinity too
BeyondFloats(len) ==
    {n \in Floats : \/ n = Infinity(1)
                    \/ n.tag = "Fin" /\ n.sign = 1 /\ (n.hi > 0 \/ n.lo >= len)}

Zero == F64(1, 0, 0, FALSE)

\* C11: for every string receiver, charAt of a negative index is the empty
\* string and charCodeAt of it is NaN, whatever the string; a NaN index gives
\* what index 0 gives, the first code unit when there is one; and an index at
\* or beyond the number of UTF-16 code units gives the empty string and NaN.
C11_IndexEdges ==
    \A this \in StringReceivers :
        /\ \A n \in NegativeFloats :
               /\ char_at(objects, this, <<n>>) = String(<<>>)
               /\ char_code_at(objects, this, <<n>>) = NaN
        /\ char_at(objects, this, <<NaN>>) = char_at(objects, this, <<Zero>>)
        /\ char_code_at(objects, this, <<NaN>>) = char_code_at(objects, this, <<Zero>>)
        /\ Len(Units(this)) > 0 =>
               /\ char_at(objects, this, <<NaN>>)
                      = String(<<utf16_code_unit_to_char(Units(this)[1])>>)
               /\ char_code_at(objects, this, <<NaN>>) = F64(1, 0, Units(this)[1], FALSE)
        /\ \A n \in BeyondFloats(Len(Units(this))) :
               /\ char_at(objects, this, <<n>>) = String(<<>>)
               /\ char_code_at(objects, this, <<n>>) = NaN

\* charCodeAt has returned NaN on a string of full length: the index was
\* negative, or at or beyond the number of code units
C11_Witness ==
    /\ last.op = "charCodeAt" /\ last.this = 1
    /\ last.ret = NaN
    /\ 1 \in StringReceivers
    /\ Len(Str(1)) = MaxStringLen

\* C12: the length getter returns the number of UTF-16 code units of the
\* string: the number of characters plus the number of characters outside the
\* Basic Multilingual Plane.
C12_LengthInCodeUnits ==
    \A this \in StringReceivers :
        length(objects, this, <<>>) =
            Number(Len(Str(this)) + Cardinality({k \in 1..Len(Str(this)) : Str(this)[k] > 65535}))

\* length has returned more than the number of characters of the string
C12_Witness ==
    /\ last.op = "length" /\ last.this = 1
    /\ 1 \in StringReceivers
    /\ last.ret.tag = "Number"
    /\ last.ret.n > Len(Str(1))

\* the first max(0, limit) entries of the array, all of them when there are fewer
FirstEntries(entries, limit) ==
    IF limit.sign = -1 THEN <<>>
    ELSE IF limit.hi > 0 \/ limit.lo >= Len(entries) THEN entries
    ELSE SubSeq(entries, 1, limit.lo)

\* C13: for every string, every string delimiter and every finite limit, split
\* returns exactly the first max(0, limit) entries of what split returns
\* without a limit, all of them when there are fewer.
C13_LimitTruncates ==
    \A this \in StringReceivers, d \in Delimiters, limit \in Finites :
        split(objects, this, <<String(d), limit>>).entries =
            FirstEntries(split(objects, this, <<String(d)>>).entries, limit)

\* C14: split with the empty string as delimiter and no limit returns one
\* entry per character of the receiver's string, in order, each that single
\* character: no empty entry anywhere, and no entry at all for the empty string.
C14_EmptyDelimiter ==
    \A this \in StringReceivers :
        split(objects, this, <<String(<<>>)>>) =
            ArrayObject_from_storage([k \in 1..Len(Str(this)) |-> String(<<Str(this)[k]>>)])

\* split has returned three entries of one character each, the first outside
\* the Basic Multilingual Plane: the characters of a string of three
C14_Witness ==
    /\ last.op = "split" /\ last.this = 1
    /\ 1 \in StringReceivers
    /\ last.ret.tag = "Array"
    /\ Len(last.ret.entries) = 3
    /\ Len(Str(1)) = 3
    /\ \A k \in 1..3 : last.ret.entries[k] = String(<<Str(1)[k]>>)
    /\ Str(1)[1] > 65535

RECURSIVE Occurrences(_, _, _)
\* the number of non-overlapping occurrences of the delimiter from position pos
\* on, counted from left to right
Occurrences(chars, d, pos) ==
    IF pos + Len(d) - 1 > Len(chars) THEN 0
    ELSE IF SubSeq(chars, pos, pos + Len(d) - 1) = d
         THEN 1 + Occurrences(chars, d, pos + Len(d))
         ELSE Occurrences(chars, d, pos + 1)

\* the delimiter occurs in the entry
Contains(chars, d) ==
    \E i \in 1..(Len(chars) - Len(d) + 1) : SubSeq(chars, i, i + Len(d) - 1) = d

RECURSIVE Join(_, _)
\* the entries joined with the delimiter
Join(entries, d) ==
    IF Len(entries) = 1 THEN entries[1].chars
    ELSE entries[1].chars \o d \o Join(Tail(entries), d)

\* C15: split with a non-empty string delimiter and no limit returns one entry
\* more than there are non-overlapping occurrences of the delimiter, empty
\* fields included; no entry contains the delimiter; and the entries joined
\* with the delimiter are the receiver's string.
C15_SplitFields ==
    \A this \in StringReceivers, d \in Delimiters \ {<<>>} :
        LET entries == split(objects, this, <<String(d)>>).entries
        IN  /\ Len(entries) = Occurrences(Str(this), d, 1) + 1
            /\ \A k \in 1..Len(entries) : ~Contains(entries[k].chars, d)
            /\ Join(entries, d) = Str(this)

\* split has returned a field followed by two empty fields: the delimiter
\* occurred twice in a row at the end of the string
C15_Witness ==
    /\ last.op = "split" /\ last.this = 1
    /\ 1 \in StringReceivers
    /\ last.ret.tag = "Array"
    /\ last.ret.entries = <<String(<<97>>), String(<<>>), String(<<>>)>>
    /\ Str(1) = <<97, 44, 44>>

====
